---- MODULE Spec2Model ----
(***************************************************************************)
(* The parking-lot service of src/ParkingLot: ParkingSystem, ParkingFloor, *)
(* ParkingSlot, TicketManager and the charge strategies, run by several    *)
(* client threads.  Every action is one step of a method of the source     *)
(* between two accesses to shared state.  ConsoleLogger.log only prints:  *)
(* the log calls of the methods are not steps; the logger's get_instance   *)
(* and constructor are modelled on their own.  Ticket, slot and floor ids  *)
(* are uuid4 strings in the source and distinct integers here; amounts are *)
(* in hundredths and times in seconds.                                     *)
(***************************************************************************)
EXTENDS Integers, FiniteSets, Sequences, TLC

\* ---------------------------------------------------------------- bounds
NThreads == 3
NWorkers == 2
NFloors == 2
NSlots == 2
MaxTickets == 3
MaxHours == 2
MaxSecs == 1
MaxCharges == 2
NTasks == 3

\* ------------------------------------------------------------- constants
SecsPerHour == 3600
FixedRate == 20
RateSmall == 20
RateMedium == 30
RateLarge == 40

\* The threads of the process, and those of them that serve clients of the
\* running system.
Threads == 1..NThreads
Workers == 1..NWorkers
Floors == 1..NFloors
SlotIds == 1..(NFloors * NSlots)
SlotTypes == {"SMALL", "MEDIUM", "LARGE"}
VehicleIds == {"AP27PEK9409"}
Strategies == {"Fixed", "Dynamic"}

\* A slot type that is no key of DynamicChargeStrategy.hourly_rate_map.
OtherType == "OTHER"

\* The lot the client wires up: floor f holds the slots
\* (f-1)*NSlots+1 .. f*NSlots in insertion order; the first floor is built
\* from SMALL slots, the others from MEDIUM slots.
FloorSlots(f) == [i \in 1..NSlots |-> (f - 1) * NSlots + i]

FloorOf(s) == ((s - 1) \div NSlots) + 1

parking_slot_type(s) == IF FloorOf(s) = 1 THEN "SMALL" ELSE "MEDIUM"

\* A slot id that was never added to any floor.
UnknownSlot == 0

NoTicket == [ticket_id |-> 0, vehicle_number |-> "", parking_slot_id |-> 0,
             parking_slot_type |-> "", issued_time |-> 0]

\* A Ticket object built by the client itself, naming a slot of no floor.
ForeignTicket == [ticket_id |-> MaxTickets + 1, vehicle_number |-> "AP27PEK9409",
                  parking_slot_id |-> UnknownSlot, parking_slot_type |-> "SMALL",
                  issued_time |-> 0]

\* The Task objects of src/State and the TaskState classes.
Tasks == 1..NTasks
IdleState == "Idle"
ProgressState == "Progress"
ClosedState == "Closed"
TaskStates == {IdleState, ProgressState, ClosedState}
NoCall == [task |-> 0, method |-> "", state |-> ""]

NoArg == [vehicle_type |-> "", vehicle_id |-> "", time |-> 0, ticket |-> NoTicket,
          strategy |-> "", given |-> FALSE, hourly_rate |-> 0]
NoLoc == [floor |-> 0, slot |-> 0, tm |-> 0, stale |-> FALSE, raced |-> FALSE,
          hourly_rate |-> 0]
NoRes == [kind |-> "none", ticket |-> NoTicket, fee |-> 0, inst |-> 0]
NoSnap == [slots |-> [s \in SlotIds |-> "EMPTY"], tickets |-> {}, owner |-> 0,
           tid |-> 0, undone |-> FALSE]

VARIABLES
    parking_slot_state,  \* ParkingSlot.parking_slot_state, by slot id
    tm_instance,         \* TicketManager.instance: 0 is None, else the object
    tm_made,             \* the TicketManager objects constructed so far
    tickets,             \* TicketManager.tickets of each constructed object
    next_id,             \* the number of Ticket objects (fresh uuid4 ids) made
    ps_instance,         \* ParkingSystem.instance: 0 is None
    ps_made,             \* the ParkingSystem objects constructed so far
    ps_lock,             \* ParkingSystem._lock: 0 is free, else the holder
    instance_lock,       \* ParkingSystem.instance_lock: 0 is free
    payment_strategy,    \* ParkingSystem.payment_strategy
    now,                 \* the wall clock read by datetime.now(), in seconds
    pc,                  \* the position of each thread
    op,                  \* the method each thread is running
    arg,                 \* its arguments
    loc,                 \* its local variables, and what held when it began
    res,                 \* what the call returned or raised
    issued,              \* the tickets handed to clients so far
    snap,                \* slots and registry when the last park took the lock,
                         \* kept while no other call has written to them
    cl_instance,         \* ConsoleLogger.instance: 0 is None
    cl_made,             \* the ConsoleLogger objects constructed so far
    cl_lock,             \* ConsoleLogger._lock: 0 is free, else the holder
    charged,             \* the calculate_charge calls made on a strategy object
                         \* by a client, with what each returned
    requested,           \* the strategy last passed to set_payment, if any
    invalidated,         \* the tickets invalidate_ticket has removed
    task_state,          \* Task.state of each task of src/State
    task_call            \* the last method called on a task

vars == <<parking_slot_state, tm_instance, tm_made, tickets, next_id,
          ps_instance, ps_made, ps_lock, instance_lock, payment_strategy, now,
          cl_instance, cl_made, cl_lock, charged, requested,
          invalidated, task_state, task_call,
          pc, op, arg, loc, res, issued, snap>>

system_vars == <<ps_instance, ps_made, ps_lock>>
logger_vars == <<cl_instance, cl_made, cl_lock>>
fee_vars == <<charged, requested>>
ghost_vars == <<issued, snap>>
task_vars == <<task_state, task_call>>

\* ------------------------------------------------------------- helpers
\* The ticket registry a caller of TicketManager.get_instance() sees now.
Registry == IF tm_instance = 0 THEN {} ELSE tickets[tm_instance]

Min(a, b) == IF a < b THEN a ELSE b

\* round(x, 2) of the rational num/den, in hundredths, ties to even.
Round2(num, den) ==
    LET n == 100 * num
        q == n \div den
        r == n - q * den
    IN  IF 2 * r < den THEN q
        ELSE IF 2 * r > den THEN q + 1
        ELSE IF q % 2 = 0 THEN q ELSE q + 1

\* An elapsed time taken from the issue time back to the clock.
diff_sec_reversed(ticket, cur_time) == ticket.issued_time - cur_time

\* calculate_charge, lines 16-18 (Fixed) and 20-21 (Dynamic):
\* (cur_time - issued_time).total_seconds()
diff_sec(ticket, cur_time) == cur_time - ticket.issued_time

\* A Fixed strategy that charges the MEDIUM rate of the Dynamic table.
FixedChargeStrategy_calculate_charge_medium(ticket, cur_time) ==
    Round2(diff_sec(ticket, cur_time) * RateMedium, SecsPerHour)

\* FixedChargeStrategy.calculate_charge, in hundredths of a currency unit.
FixedChargeStrategy_calculate_charge(ticket, cur_time) ==
    Round2(diff_sec(ticket, cur_time) * FixedRate, SecsPerHour)

hourly_rate_map(t) ==
    CASE t = "SMALL" -> RateSmall
      [] t = "MEDIUM" -> RateMedium
      [] t = "LARGE" -> RateLarge

\* A lookup that gives a rate of 0 for a type the table does not hold.
hourly_rate_or_zero(ty) ==
    IF ty \in SlotTypes THEN [found |-> TRUE, rate |-> hourly_rate_map(ty)]
    ELSE [found |-> TRUE, rate |-> 0]

\* A lookup of the SMALL rate whatever the type.
hourly_rate_flat(ty) ==
    IF ty \in SlotTypes THEN [found |-> TRUE, rate |-> RateSmall]
    ELSE [found |-> FALSE, rate |-> 0]

\* DynamicChargeStrategy.calculate_charge, line 24:
\* self.hourly_rate_map[ticket.parking_slot_type], which raises KeyError for
\* a type that is no key of the dict.
hourly_rate_lookup(ty) ==
    IF ty \in SlotTypes THEN [found |-> TRUE, rate |-> hourly_rate_map(ty)]
    ELSE [found |-> FALSE, rate |-> 0]

\* DynamicChargeStrategy.calculate_charge, in hundredths.
DynamicChargeStrategy_calculate_charge(ticket, cur_time) ==
    Round2(diff_sec(ticket, cur_time)
              * hourly_rate_lookup(ticket.parking_slot_type).rate,
           SecsPerHour)

calculate_charge(strategy, ticket, cur_time) ==
    IF strategy = "Fixed"
    THEN FixedChargeStrategy_calculate_charge(ticket, cur_time)
    ELSE DynamicChargeStrategy_calculate_charge(ticket, cur_time)

\* What strategy.calculate_charge(ticket) gives its caller when the clock
\* reads cur_time: the cost, or the KeyError of the rate lookup.
calculate_charge_outcome(strategy, ticket, cur_time) ==
    IF strategy = "Dynamic"
       /\ ~ hourly_rate_lookup(ticket.parking_slot_type).found
    THEN [kind |-> "KeyError", fee |-> 0]
    ELSE [kind |-> "fee", fee |-> calculate_charge(strategy, ticket, cur_time)]

\* A scan that takes the slots of the type whatever their state.
empty_slots_any_state(f, vehicle_type) ==
    SelectSeq(FloorSlots(f), LAMBDA s : parking_slot_type(s) = vehicle_type)

\* A scan that takes the EMPTY slots whatever their type.
empty_slots_any_type(f, vehicle_type) ==
    SelectSeq(FloorSlots(f), LAMBDA s : parking_slot_state[s] = "EMPTY")

\* ParkingFloor.book_slot, line 20: the EMPTY slots of the requested type,
\* in the insertion order of the floor's dict.
empty_slots(f, vehicle_type) ==
    SelectSeq(FloorSlots(f),
              LAMBDA s : parking_slot_type(s) = vehicle_type
                         /\ parking_slot_state[s] = "EMPTY")

\* A floor that takes every slot id for one of its own.
slot_known_always(f, slot_id) == TRUE

\* ParkingFloor.release_slot, line 32: slot_id in self.slots.keys()
slot_known(f, slot_id) == \E i \in 1..NSlots : FloorSlots(f)[i] = slot_id

\* An id generator that comes back to an id it gave before.
uuid4_repeating(n) == (n % 2) + 1

\* Ticket.__init__, line 8: str(uuid.uuid4()), the id of the Ticket object
\* made after n others.
uuid4(n) == n + 1

\* A choice of the last slot of the list.
last_fit(es) == es[Len(es)]

\* ParkingFloor.book_slot, line 22: empty_slots[0]
first_fit(es) == es[1]

\* Ticket.__init__
Ticket(id, vehicle_number, parking_slot_id, slot_type, date) ==
    [ticket_id |-> id, vehicle_number |-> vehicle_number,
     parking_slot_id |-> parking_slot_id, parking_slot_type |-> slot_type,
     issued_time |-> date]

\* A write to the slots or the registry by an unpark of the ticket of the
\* park that took the snapshot is noted in it; a write by any other call ends
\* the snapshot.
Spoil(ticket) ==
    IF snap.tid # 0 /\ ticket.ticket_id = snap.tid
    THEN [snap EXCEPT !.undone = TRUE] ELSE NoSnap

\* The park_vehicle and create_ticket calls that have not yet made their
\* Ticket object.
Pending == {u \in Threads : op[u] \in {"park", "tm"} /\ res[u].kind = "none"}

\* ------------------------------------------------------------------ Init
InitWith(inst, made) ==
    /\ parking_slot_state = [s \in SlotIds |-> "EMPTY"]
    /\ tm_instance = 0
    /\ tm_made = {}
    /\ tickets = [t \in Threads |-> {}]
    /\ next_id = 0
    /\ ps_instance = inst
    /\ ps_made = made
    /\ ps_lock = 0
    /\ instance_lock = 0
    /\ payment_strategy = "Fixed"
    /\ now = 0
    /\ pc = [t \in Threads |-> "idle"]
    /\ op = [t \in Threads |-> "none"]
    /\ arg = [t \in Threads |-> NoArg]
    /\ loc = [t \in Threads |-> NoLoc]
    /\ res = [t \in Threads |-> NoRes]
    /\ issued = {}
    /\ snap = NoSnap
    /\ cl_instance = 0
    /\ cl_made = {}
    /\ cl_lock = 0
    /\ charged = {}
    /\ requested = "none"
    /\ invalidated = {}
    /\ task_state = [k \in Tasks |-> IdleState]
    /\ task_call = NoCall

\* The client's main thread has obtained the system and added the floors
\* (Client.py, lines 9-15); no vehicle has been parked yet.
Init == InitWith(1, {1})

\* The process has started and nothing has called get_instance yet.
InitPS == InitWith(0, {})

\* --------------------------------------------------------- park_vehicle
\* A client calls park_vehicle(vehicle_type, vehicle_id, time).
CallPark(t) ==
    /\ pc[t] = "idle"
    /\ next_id + Cardinality(Pending) < MaxTickets
    /\ \E vt \in SlotTypes, vid \in VehicleIds, tm \in {0, now} :
          arg' = [arg EXCEPT ![t] = [NoArg EXCEPT !.vehicle_type = vt,
                                                  !.vehicle_id = vid,
                                                  !.time = tm]]
    /\ op' = [op EXCEPT ![t] = "park"]
    /\ pc' = [pc EXCEPT ![t] = "park_lock"]
    /\ loc' = [loc EXCEPT ![t] = NoLoc]
    /\ res' = [res EXCEPT ![t] = NoRes]
    /\ UNCHANGED <<invalidated, task_vars, parking_slot_state, tm_instance, tm_made, tickets, next_id,
                   system_vars, instance_lock, payment_strategy, now, logger_vars, fee_vars,
                   ghost_vars>>

\* A with statement that takes no lock.
lock_free_unguarded(l) == TRUE

\* Whether a `with lock:` statement lets a thread in.
lock_free(l) == l = 0

\* A with block that keeps the lock when it is left.
lock_after_exit_held(holder) == holder

\* park_vehicle, lines 42-47: the value of the lock when the with block is
\* left, by `return ticket` or after the loop.
lock_after_exit(holder) == 0

\* park_vehicle, line 42: with self.instance_lock
park_acquire(t) ==
    /\ pc[t] = "park_lock"
    /\ lock_free(instance_lock)
    /\ instance_lock' = t
    /\ loc' = [loc EXCEPT ![t].floor = 1]
    /\ pc' = [pc EXCEPT ![t] = "book_scan"]
    /\ snap' = [slots |-> parking_slot_state, tickets |-> Registry,
                owner |-> t, tid |-> 0, undone |-> FALSE]
    /\ UNCHANGED <<invalidated, task_vars, parking_slot_state, tm_instance, tm_made, tickets, next_id,
                   system_vars, payment_strategy, now, logger_vars, fee_vars, op, arg, res, issued>>

\* park_vehicle, lines 43-47 with book_slot, lines 20-22 and 26-28: the next
\* floor is asked for its EMPTY slots of the type; after the last floor the
\* lock is dropped and None returned.
book_scan(t) ==
    /\ pc[t] = "book_scan"
    /\ IF loc[t].floor > NFloors
       THEN /\ instance_lock' = lock_after_exit(t)
            /\ res' = [res EXCEPT ![t] = [NoRes EXCEPT !.kind = "None"]]
            /\ pc' = [pc EXCEPT ![t] = "ret"]
            /\ UNCHANGED loc
       ELSE /\ LET es == empty_slots(loc[t].floor, arg[t].vehicle_type)
               IN  IF es # <<>>
                   THEN /\ loc' = [loc EXCEPT ![t].slot = first_fit(es)]
                        /\ pc' = [pc EXCEPT ![t] = "book_fill"]
                   ELSE /\ loc' = [loc EXCEPT ![t].floor = @ + 1]
                        /\ pc' = pc
            /\ UNCHANGED <<instance_lock, res>>
    /\ UNCHANGED <<invalidated, task_vars, parking_slot_state, tm_instance, tm_made, tickets, next_id,
                   system_vars, payment_strategy, now, logger_vars, fee_vars, op, arg, ghost_vars>>

\* book_slot, line 23: slot.set_state(FILLED)
book_fill(t) ==
    /\ pc[t] = "book_fill"
    /\ parking_slot_state' = [parking_slot_state EXCEPT ![loc[t].slot] = "FILLED"]
    /\ pc' = [pc EXCEPT ![t] = "tm_check"]
    /\ UNCHANGED <<invalidated, task_vars, tm_instance, tm_made, tickets, next_id, system_vars,
                   instance_lock, payment_strategy, now, logger_vars, fee_vars, op, arg, loc, res,
                   ghost_vars>>

\* ------------------------------------------ TicketManager.get_instance
\* A thread calls TicketManager.get_instance().create_ticket(...) for a slot
\* and its type, as book_slot does (line 24), with no lock of the system held.
CallTicketManager(t) ==
    /\ pc[t] = "idle"
    /\ next_id + Cardinality(Pending) < MaxTickets
    /\ \E vid \in VehicleIds, s \in SlotIds :
          /\ arg' = [arg EXCEPT ![t] = [NoArg EXCEPT !.vehicle_type =
                                                        parking_slot_type(s),
                                                     !.vehicle_id = vid]]
          /\ loc' = [loc EXCEPT ![t] = [NoLoc EXCEPT !.slot = s]]
    /\ op' = [op EXCEPT ![t] = "tm"]
    /\ pc' = [pc EXCEPT ![t] = "tm_check"]
    /\ res' = [res EXCEPT ![t] = NoRes]
    /\ UNCHANGED <<invalidated, task_vars, parking_slot_state, tm_instance, tm_made, tickets, next_id,
                   system_vars, instance_lock, payment_strategy, now, logger_vars, fee_vars,
                   ghost_vars>>

\* line 22: if TicketManager.instance is None
tm_check(t) ==
    /\ pc[t] = "tm_check"
    /\ pc' = [pc EXCEPT ![t] = IF tm_instance = 0 THEN "tm_new" ELSE "tm_ret"]
    /\ UNCHANGED <<invalidated, task_vars, parking_slot_state, tm_instance, tm_made, tickets, next_id,
                   system_vars, instance_lock, payment_strategy, now, logger_vars, fee_vars,
                   op, arg, loc, res, ghost_vars>>

\* line 23: TicketManager.instance = TicketManager(); the new object's
\* tickets dict is empty (line 27).
tm_new(t) ==
    /\ pc[t] = "tm_new"
    /\ tm_made' = tm_made \cup {t}
    /\ tickets' = [tickets EXCEPT ![t] = {}]
    /\ tm_instance' = t
    /\ pc' = [pc EXCEPT ![t] = "tm_ret"]
    /\ UNCHANGED <<invalidated, task_vars, parking_slot_state, next_id, system_vars, instance_lock,
                   payment_strategy, now, logger_vars, fee_vars, op, arg, loc, res, ghost_vars>>

\* line 24: return TicketManager.instance, to unpark_vehicle (line 53), to
\* book_slot (ParkingFloor.py, line 24) or to a client that asked for it.
tm_ret(t) ==
    /\ pc[t] = "tm_ret"
    /\ loc' = [loc EXCEPT ![t].tm = tm_instance]
    /\ pc' = [pc EXCEPT ![t] = CASE op[t] = "unpark" -> "invalidate_ticket"
                                  [] op[t] = "tm_get" -> "ret"
                                  [] OTHER -> "create_ticket"]
    /\ res' = IF op[t] = "tm_get"
              THEN [res EXCEPT ![t] = [NoRes EXCEPT !.kind = "instance",
                                                    !.inst = tm_instance]]
              ELSE res
    /\ UNCHANGED <<invalidated, task_vars, parking_slot_state, tm_instance, tm_made, tickets, next_id,
                   system_vars, instance_lock, payment_strategy, now,
                   logger_vars, fee_vars, op, arg, ghost_vars>>

\* A store that writes back a dict holding the new ticket alone.
store_ticket_alone(dict, ticket) == {ticket}

\* TicketManager.create_ticket, line 31: self.tickets[ticket.ticket_id] = ticket
store_ticket(dict, ticket) == dict \cup {ticket}

\* TicketManager.create_ticket, lines 30-32, on the object the caller holds.
create_ticket(t) ==
    /\ pc[t] = "create_ticket"
    /\ LET ticket == Ticket(uuid4(next_id), arg[t].vehicle_id, loc[t].slot,
                            arg[t].vehicle_type, arg[t].time)
       IN  /\ tickets' = [tickets EXCEPT ![loc[t].tm] = store_ticket(@, ticket)]
           /\ res' = [res EXCEPT ![t] = [NoRes EXCEPT !.kind = "ticket",
                                                      !.ticket = ticket]]
           /\ snap' = IF snap.owner = t /\ op[t] = "park"
                      THEN [snap EXCEPT !.tid = ticket.ticket_id] ELSE NoSnap
           /\ issued' = IF op[t] = "park" THEN issued ELSE issued \cup {ticket}
    /\ next_id' = next_id + 1
    /\ pc' = [pc EXCEPT ![t] = IF op[t] = "park" THEN "park_unlock" ELSE "ret"]
    /\ UNCHANGED <<invalidated, task_vars, parking_slot_state, tm_instance, tm_made, system_vars,
                   instance_lock, payment_strategy, now, logger_vars, fee_vars, op, arg, loc>>

\* park_vehicle, lines 45-46: return ticket, leaving the with block.
park_unlock(t) ==
    /\ pc[t] = "park_unlock"
    /\ instance_lock' = lock_after_exit(t)
    /\ issued' = issued \cup {res[t].ticket}
    /\ pc' = [pc EXCEPT ![t] = "ret"]
    /\ UNCHANGED <<invalidated, task_vars, parking_slot_state, tm_instance, tm_made, tickets, next_id,
                   system_vars, payment_strategy, now, logger_vars, fee_vars, op, arg, loc, res,
                   snap>>

\* ------------------------------------------------------- unpark_vehicle
\* A client calls unpark_vehicle with a ticket park_vehicle returned at some
\* time, or with a ticket of its own making.
CallUnpark(t) ==
    /\ pc[t] = "idle"
    /\ \E ticket \in issued \cup {ForeignTicket} :
          /\ arg' = [arg EXCEPT ![t] = [NoArg EXCEPT !.ticket = ticket]]
          /\ loc' = [loc EXCEPT ![t] =
                       [NoLoc EXCEPT !.floor = 1,
                                     !.stale = ~ \E k \in Registry :
                                                   k.ticket_id = ticket.ticket_id]]
    /\ op' = [op EXCEPT ![t] = "unpark"]
    /\ pc' = [pc EXCEPT ![t] = "release_scan"]
    /\ res' = [res EXCEPT ![t] = NoRes]
    /\ UNCHANGED <<invalidated, task_vars, parking_slot_state, tm_instance, tm_made, tickets, next_id,
                   system_vars, instance_lock, payment_strategy, now, logger_vars, fee_vars,
                   ghost_vars>>

\* ParkingFloor.release_slot, lines 32-36: the state the slots are left in
\* and the value returned.
release_slot(f, slot_id) ==
    IF slot_known(f, slot_id)
    THEN [state |-> [parking_slot_state EXCEPT ![slot_id] = "EMPTY"],
          ret |-> TRUE]
    ELSE [state |-> parking_slot_state, ret |-> FALSE]

\* unpark_vehicle, lines 50-52 and 57: the next floor is asked to release the
\* ticket's slot; after the last floor None is returned.
release_scan(t) ==
    /\ pc[t] = "release_scan"
    /\ IF loc[t].floor > NFloors
       THEN /\ res' = [res EXCEPT ![t] = [NoRes EXCEPT !.kind = "None"]]
            /\ pc' = [pc EXCEPT ![t] = "ret"]
            /\ UNCHANGED <<parking_slot_state, loc, snap>>
       ELSE LET r == release_slot(loc[t].floor, arg[t].ticket.parking_slot_id)
            IN  IF r.ret
                THEN /\ parking_slot_state' = r.state
                     /\ pc' = [pc EXCEPT ![t] = "tm_check"]
                     /\ snap' = Spoil(arg[t].ticket)
                     /\ UNCHANGED <<loc, res>>
                ELSE /\ parking_slot_state' = r.state
                     /\ loc' = [loc EXCEPT ![t].floor = @ + 1]
                     /\ UNCHANGED <<pc, res, snap>>
    /\ UNCHANGED <<invalidated, task_vars, tm_instance, tm_made, tickets, next_id, system_vars,
                   instance_lock, payment_strategy, now, logger_vars, fee_vars, op, arg, issued>>

\* An invalidation that leaves the dict as it is.
del_ticket_kept(dict, id) == dict

\* TicketManager.invalidate_ticket, lines 35-36: the tickets dict after
\* `del self.tickets[id]`.
del_ticket(dict, id) == {k \in dict : k.ticket_id # id}

\* A del that finds every id.
key_present_always(dict, id) == TRUE

\* TicketManager.invalidate_ticket, line 36: whether id is a key of the dict
\* `del self.tickets[id]` is applied to.
key_present(dict, id) == \E k \in dict : k.ticket_id = id

\* TicketManager.invalidate_ticket, lines 35-38: del raises KeyError when the
\* id is not a key, and the exception leaves unpark_vehicle.  The other
\* unpark calls in progress for the same ticket have lost the race for it.
invalidate_ticket(t) ==
    /\ pc[t] = "invalidate_ticket"
    /\ IF key_present(tickets[loc[t].tm], arg[t].ticket.ticket_id)
       THEN /\ tickets' = [tickets EXCEPT ![loc[t].tm] =
                              del_ticket(@, arg[t].ticket.ticket_id)]
            /\ invalidated' = invalidated \cup {arg[t].ticket}
            /\ pc' = [pc EXCEPT ![t] = "charge"]
            /\ snap' = Spoil(arg[t].ticket)
            /\ loc' = [u \in Threads |->
                         IF u # t /\ op[u] = "unpark" /\ pc[u] # "ret"
                            /\ arg[u].ticket.ticket_id = arg[t].ticket.ticket_id
                         THEN [loc[u] EXCEPT !.raced = TRUE] ELSE loc[u]]
            /\ UNCHANGED res
       ELSE /\ res' = [res EXCEPT ![t] = [NoRes EXCEPT !.kind = "KeyError"]]
            /\ pc' = [pc EXCEPT ![t] = "ret"]
            /\ UNCHANGED <<tickets, snap, loc, invalidated>>
    /\ UNCHANGED <<task_vars, parking_slot_state, tm_instance, tm_made, next_id,
                   system_vars, instance_lock, payment_strategy, now, logger_vars, fee_vars,
                   op, arg, issued>>

\* unpark_vehicle, line 55: return self.payment_strategy.calculate_charge(ticket)
charge(t) ==
    /\ pc[t] = "charge"
    /\ LET out == calculate_charge_outcome(payment_strategy, arg[t].ticket, now)
       IN  res' = [res EXCEPT ![t] = [NoRes EXCEPT !.kind = out.kind,
                                                   !.fee = out.fee]]
    /\ pc' = [pc EXCEPT ![t] = "ret"]
    /\ UNCHANGED <<invalidated, task_vars, parking_slot_state, tm_instance, tm_made, tickets, next_id,
                   system_vars, instance_lock, payment_strategy, now, logger_vars, fee_vars,
                   op, arg, loc, ghost_vars>>

\* The caller takes the result; the thread is free for its next call.  A
\* snapshot whose park returned None, or whose ticket has been unparked, is
\* dropped.
Return(t) ==
    /\ pc[t] = "ret"
    /\ pc' = [pc EXCEPT ![t] = "idle"]
    /\ op' = [op EXCEPT ![t] = "none"]
    /\ arg' = [arg EXCEPT ![t] = NoArg]
    /\ loc' = [loc EXCEPT ![t] = NoLoc]
    /\ res' = [res EXCEPT ![t] = NoRes]
    /\ snap' = IF \/ op[t] = "park" /\ snap.owner = t /\ snap.tid = 0
                  \/ op[t] = "unpark" /\ snap.tid # 0
                       /\ arg[t].ticket.ticket_id = snap.tid
               THEN NoSnap ELSE snap
    /\ UNCHANGED <<invalidated, task_vars, parking_slot_state, tm_instance, tm_made, tickets, next_id,
                   system_vars, instance_lock, payment_strategy, now, logger_vars, fee_vars, issued>>

\* --------------------------------------------- ParkingSystem.get_instance
\* A thread calls ParkingSystem.get_instance().
CallGetInstance(t) ==
    /\ pc[t] = "idle"
    /\ op' = [op EXCEPT ![t] = "ps"]
    /\ pc' = [pc EXCEPT ![t] = "ps_check"]
    /\ res' = [res EXCEPT ![t] = NoRes]
    /\ UNCHANGED <<invalidated, task_vars, parking_slot_state, tm_instance, tm_made, tickets, next_id,
                   system_vars, instance_lock, payment_strategy, now, logger_vars, fee_vars,
                   arg, loc, ghost_vars>>

\* line 20: if ParkingSystem.instance is None
ps_check(t) ==
    /\ pc[t] = "ps_check"
    /\ pc' = [pc EXCEPT ![t] = IF ps_instance = 0 THEN "ps_acquire" ELSE "ps_ret"]
    /\ UNCHANGED <<invalidated, task_vars, parking_slot_state, tm_instance, tm_made, tickets, next_id,
                   system_vars, instance_lock, payment_strategy, now, logger_vars, fee_vars,
                   op, arg, loc, res, ghost_vars>>

\* line 21: with ParkingSystem._lock
ps_acquire(t) ==
    /\ pc[t] = "ps_acquire"
    /\ lock_free(ps_lock)
    /\ ps_lock' = t
    /\ pc' = [pc EXCEPT ![t] = "ps_recheck"]
    /\ UNCHANGED <<invalidated, task_vars, parking_slot_state, tm_instance, tm_made, tickets, next_id,
                   ps_instance, ps_made, instance_lock, payment_strategy, now, logger_vars, fee_vars,
                   op, arg, loc, res, ghost_vars>>

\* A get_instance that keeps the class lock when it leaves the with block.
class_lock_after_exit_held(holder) == holder

\* get_instance, ParkingSystem.py lines 21-23 and ConsoleLogger.py lines
\* 16-18: the value of the class lock when the with block is left.
class_lock_after_exit(holder) == 0

\* A holder of the class lock that does not look at the instance again.
must_construct_unchecked(inst) == TRUE

\* Whether the holder of the class lock goes on to construct the system.
must_construct(inst) == inst = 0

\* line 22: if ParkingSystem.instance is None, under the lock; when it is not,
\* the with block is left.
ps_recheck(t) ==
    /\ pc[t] = "ps_recheck"
    /\ IF must_construct(ps_instance)
       THEN /\ pc' = [pc EXCEPT ![t] = "ps_init"]
            /\ UNCHANGED ps_lock
       ELSE /\ pc' = [pc EXCEPT ![t] = "ps_ret"]
            /\ ps_lock' = class_lock_after_exit(t)
    /\ UNCHANGED <<invalidated, task_vars, parking_slot_state, tm_instance, tm_made, tickets, next_id,
                   ps_instance, ps_made, instance_lock, payment_strategy, now, logger_vars, fee_vars,
                   op, arg, loc, res, ghost_vars>>

\* line 23, right-hand side: ParkingSystem(), whose __init__ (lines 27-32)
\* raises when an instance is already set; the exception leaves the with
\* block and get_instance.
ps_init(t) ==
    /\ pc[t] = "ps_init"
    /\ IF ps_instance # 0
       THEN /\ res' = [res EXCEPT ![t] = [NoRes EXCEPT !.kind = "Exception"]]
            /\ ps_lock' = IF ps_lock = t THEN class_lock_after_exit(t)
                          ELSE ps_lock
            /\ pc' = [pc EXCEPT ![t] = "ret"]
            /\ UNCHANGED ps_made
       ELSE /\ ps_made' = ps_made \cup {t}
            /\ pc' = [pc EXCEPT ![t] = "ps_assign"]
            /\ UNCHANGED <<res, ps_lock>>
    /\ UNCHANGED <<invalidated, task_vars, parking_slot_state, tm_instance, tm_made, tickets, next_id,
                   ps_instance, instance_lock, payment_strategy, now, logger_vars, fee_vars,
                   op, arg, loc, ghost_vars>>

\* line 23, the assignment to ParkingSystem.instance, and the end of the
\* with block.
ps_assign(t) ==
    /\ pc[t] = "ps_assign"
    /\ ps_instance' = t
    /\ ps_lock' = IF ps_lock = t THEN class_lock_after_exit(t)
                          ELSE ps_lock
    /\ pc' = [pc EXCEPT ![t] = "ps_ret"]
    /\ UNCHANGED <<invalidated, task_vars, parking_slot_state, tm_instance, tm_made, tickets, next_id,
                   ps_made, instance_lock, payment_strategy, now, logger_vars, fee_vars,
                   op, arg, loc, res, ghost_vars>>

\* line 24: return ParkingSystem.instance
ps_ret(t) ==
    /\ pc[t] = "ps_ret"
    /\ res' = [res EXCEPT ![t] = [NoRes EXCEPT !.kind = "instance",
                                               !.inst = ps_instance]]
    /\ pc' = [pc EXCEPT ![t] = "ret"]
    /\ UNCHANGED <<invalidated, task_vars, parking_slot_state, tm_instance, tm_made, tickets, next_id,
                   system_vars, instance_lock, payment_strategy, now, logger_vars, fee_vars,
                   op, arg, loc, ghost_vars>>

ParkStep(t) ==
    \/ park_acquire(t) \/ book_scan(t) \/ book_fill(t)
    \/ create_ticket(t) \/ park_unlock(t)

GetInstanceStep(t) == tm_check(t) \/ tm_new(t) \/ tm_ret(t)

UnparkStep(t) == release_scan(t) \/ invalidate_ticket(t) \/ charge(t)

\* Clients of the running system park and unpark concurrently.
Next ==
    \/ \E t \in Workers : CallPark(t)
    \/ \E t \in Workers : CallUnpark(t)
    \/ \E t \in Workers : ParkStep(t)
    \/ \E t \in Workers : GetInstanceStep(t)
    \/ \E t \in Workers : UnparkStep(t)
    \/ \E t \in Workers : Return(t)

Spec == Init /\ [][Next]_vars

\* Every thread makes one park_vehicle call and nothing is unparked.
NextPark ==
    \/ \E t \in Threads : CallPark(t)
    \/ \E t \in Threads : ParkStep(t)
    \/ \E t \in Threads : GetInstanceStep(t)

SpecPark == Init /\ [][NextPark]_vars

\* The threads of a fresh process call ParkingSystem.get_instance(), each
\* any number of times.
NextPS ==
    \/ \E t \in Threads : CallGetInstance(t)
    \/ \E t \in Threads : ps_check(t)
    \/ \E t \in Threads : ps_acquire(t)
    \/ \E t \in Threads : ps_recheck(t)
    \/ \E t \in Threads : ps_init(t)
    \/ \E t \in Threads : ps_assign(t)
    \/ \E t \in Threads : ps_ret(t)
    \/ \E t \in Threads : Return(t)

SpecPS == InitPS /\ [][NextPS]_vars

\* Every thread calls TicketManager.get_instance().create_ticket(...) once.
NextTM ==
    \/ \E t \in Threads : CallTicketManager(t)
    \/ \E t \in Threads : GetInstanceStep(t)
    \/ \E t \in Threads : create_ticket(t)

SpecTM == Init /\ [][NextTM]_vars

\* --------------------------------------------- ConsoleLogger.get_instance
\* A thread calls ConsoleLogger.get_instance().
CallLogger(t) ==
    /\ pc[t] = "idle"
    /\ op' = [op EXCEPT ![t] = "cl"]
    /\ pc' = [pc EXCEPT ![t] = "cl_check"]
    /\ res' = [res EXCEPT ![t] = NoRes]
    /\ UNCHANGED <<invalidated, task_vars, parking_slot_state, tm_instance, tm_made, tickets, next_id,
                   system_vars, instance_lock, payment_strategy, now,
                   logger_vars, fee_vars, arg, loc, ghost_vars>>

\* ConsoleLogger.py, line 15: if ConsoleLogger.instance is None
cl_check(t) ==
    /\ pc[t] = "cl_check"
    /\ pc' = [pc EXCEPT ![t] = IF cl_instance = 0 THEN "cl_acquire" ELSE "cl_ret"]
    /\ UNCHANGED <<invalidated, task_vars, parking_slot_state, tm_instance, tm_made, tickets, next_id,
                   system_vars, instance_lock, payment_strategy, now,
                   logger_vars, fee_vars, op, arg, loc, res, ghost_vars>>

\* line 16: with ConsoleLogger._lock
cl_acquire(t) ==
    /\ pc[t] = "cl_acquire"
    /\ lock_free(cl_lock)
    /\ cl_lock' = t
    /\ pc' = [pc EXCEPT ![t] = "cl_recheck"]
    /\ UNCHANGED <<invalidated, task_vars, parking_slot_state, tm_instance, tm_made, tickets, next_id,
                   system_vars, instance_lock, payment_strategy, now,
                   cl_instance, cl_made, fee_vars, op, arg, loc, res,
                   ghost_vars>>

\* line 17: if ConsoleLogger.instance is None, under the lock; when it is
\* not, the with block is left.
cl_recheck(t) ==
    /\ pc[t] = "cl_recheck"
    /\ IF cl_instance = 0
       THEN /\ pc' = [pc EXCEPT ![t] = "cl_init"]
            /\ UNCHANGED cl_lock
       ELSE /\ pc' = [pc EXCEPT ![t] = "cl_ret"]
            /\ cl_lock' = class_lock_after_exit(t)
    /\ UNCHANGED <<invalidated, task_vars, parking_slot_state, tm_instance, tm_made, tickets, next_id,
                   system_vars, instance_lock, payment_strategy, now,
                   cl_instance, cl_made, fee_vars, op, arg, loc, res,
                   ghost_vars>>

\* line 18, right-hand side: ConsoleLogger(), whose __init__ (lines 10-11)
\* raises when an instance is already set.
cl_init(t) ==
    /\ pc[t] = "cl_init"
    /\ IF cl_instance # 0
       THEN /\ res' = [res EXCEPT ![t] = [NoRes EXCEPT !.kind = "Exception"]]
            /\ cl_lock' = IF cl_lock = t THEN class_lock_after_exit(t)
                          ELSE cl_lock
            /\ pc' = [pc EXCEPT ![t] = "ret"]
            /\ UNCHANGED cl_made
       ELSE /\ cl_made' = cl_made \cup {t}
            /\ pc' = [pc EXCEPT ![t] = "cl_assign"]
            /\ UNCHANGED <<res, cl_lock>>
    /\ UNCHANGED <<invalidated, task_vars, parking_slot_state, tm_instance, tm_made, tickets, next_id,
                   system_vars, instance_lock, payment_strategy, now,
                   cl_instance, fee_vars, op, arg, loc, ghost_vars>>

\* line 18, the assignment to ConsoleLogger.instance, and the end of the
\* with block.
cl_assign(t) ==
    /\ pc[t] = "cl_assign"
    /\ cl_instance' = t
    /\ cl_lock' = IF cl_lock = t THEN class_lock_after_exit(t)
                          ELSE cl_lock
    /\ pc' = [pc EXCEPT ![t] = "cl_ret"]
    /\ UNCHANGED <<invalidated, task_vars, parking_slot_state, tm_instance, tm_made, tickets, next_id,
                   system_vars, instance_lock, payment_strategy, now,
                   cl_made, fee_vars, op, arg, loc, res, ghost_vars>>

\* line 19: return ConsoleLogger.instance
cl_ret(t) ==
    /\ pc[t] = "cl_ret"
    /\ res' = [res EXCEPT ![t] = [NoRes EXCEPT !.kind = "instance",
                                               !.inst = cl_instance]]
    /\ pc' = [pc EXCEPT ![t] = "ret"]
    /\ UNCHANGED <<invalidated, task_vars, parking_slot_state, tm_instance, tm_made, tickets, next_id,
                   system_vars, instance_lock, payment_strategy, now,
                   logger_vars, fee_vars, op, arg, loc, ghost_vars>>

\* A thread calls TicketManager.get_instance() and keeps the object.
CallTicketManagerInstance(t) ==
    /\ pc[t] = "idle"
    /\ op' = [op EXCEPT ![t] = "tm_get"]
    /\ pc' = [pc EXCEPT ![t] = "tm_check"]
    /\ res' = [res EXCEPT ![t] = NoRes]
    /\ UNCHANGED <<invalidated, task_vars, parking_slot_state, tm_instance, tm_made, tickets, next_id,
                   system_vars, instance_lock, payment_strategy, now,
                   logger_vars, fee_vars, arg, loc, ghost_vars>>

LoggerStep(t) ==
    \/ cl_check(t) \/ cl_acquire(t) \/ cl_recheck(t)
    \/ cl_init(t) \/ cl_assign(t) \/ cl_ret(t)

\* ------------------------------------------------- direct construction
\* The object a thread makes by calling a class itself, outside
\* get_instance; the objects one thread makes so of one class count once.
DirectObject(t) == NThreads + t

\* A thread evaluates ParkingSystem(): __init__, lines 27-32, raises when
\* ParkingSystem.instance is set and builds the object otherwise; the class
\* attribute is not assigned.
new_ParkingSystem(t) ==
    /\ pc[t] = "idle"
    /\ op' = [op EXCEPT ![t] = "new_ps"]
    /\ pc' = [pc EXCEPT ![t] = "ret"]
    /\ IF ps_instance # 0
       THEN /\ res' = [res EXCEPT ![t] = [NoRes EXCEPT !.kind = "Exception"]]
            /\ UNCHANGED ps_made
       ELSE /\ ps_made' = ps_made \cup {DirectObject(t)}
            /\ res' = [res EXCEPT ![t] = [NoRes EXCEPT !.kind = "instance",
                                                       !.inst = DirectObject(t)]]
    /\ UNCHANGED <<invalidated, task_vars, parking_slot_state, tm_instance, tm_made, tickets, next_id,
                   ps_instance, ps_lock, instance_lock, payment_strategy, now,
                   logger_vars, fee_vars, arg, loc, ghost_vars>>

\* A thread evaluates TicketManager(): __init__, lines 26-27, sets the empty
\* tickets dict and looks at nothing else.
new_TicketManager(t) ==
    /\ pc[t] = "idle"
    /\ op' = [op EXCEPT ![t] = "new_tm"]
    /\ pc' = [pc EXCEPT ![t] = "ret"]
    /\ tm_made' = tm_made \cup {DirectObject(t)}
    /\ res' = [res EXCEPT ![t] = [NoRes EXCEPT !.kind = "instance",
                                               !.inst = DirectObject(t)]]
    /\ UNCHANGED <<invalidated, task_vars, parking_slot_state, tm_instance, tickets, next_id,
                   system_vars, instance_lock, payment_strategy, now,
                   logger_vars, fee_vars, arg, loc, ghost_vars>>

\* A thread evaluates ConsoleLogger(): __init__, lines 9-11.
new_ConsoleLogger(t) ==
    /\ pc[t] = "idle"
    /\ op' = [op EXCEPT ![t] = "new_cl"]
    /\ pc' = [pc EXCEPT ![t] = "ret"]
    /\ IF cl_instance # 0
       THEN /\ res' = [res EXCEPT ![t] = [NoRes EXCEPT !.kind = "Exception"]]
            /\ UNCHANGED cl_made
       ELSE /\ cl_made' = cl_made \cup {DirectObject(t)}
            /\ res' = [res EXCEPT ![t] = [NoRes EXCEPT !.kind = "instance",
                                                       !.inst = DirectObject(t)]]
    /\ UNCHANGED <<invalidated, task_vars, parking_slot_state, tm_instance, tm_made, tickets, next_id,
                   system_vars, instance_lock, payment_strategy, now,
                   cl_instance, cl_lock, fee_vars, arg, loc, ghost_vars>>

PSStep(t) ==
    \/ ps_check(t) \/ ps_acquire(t) \/ ps_recheck(t)
    \/ ps_init(t) \/ ps_assign(t) \/ ps_ret(t)

\* The threads of a fresh process obtain the three singletons through
\* get_instance and also call the classes directly.
NextCtor ==
    \/ \E t \in Workers : CallGetInstance(t)
    \/ \E t \in Workers : PSStep(t)
    \/ \E t \in Workers : CallLogger(t)
    \/ \E t \in Workers : LoggerStep(t)
    \/ \E t \in Workers : CallTicketManagerInstance(t)
    \/ \E t \in Workers : GetInstanceStep(t)
    \/ \E t \in Workers : new_ParkingSystem(t)
    \/ \E t \in Workers : new_TicketManager(t)
    \/ \E t \in Workers : new_ConsoleLogger(t)
    \/ \E t \in Workers : Return(t)

SpecCtor == InitPS /\ [][NextCtor]_vars

\* ------------------------------------------------------ clock and fees
\* The wall clock datetime.now() reads moves on by a second or by an hour.
Tick ==
    /\ \E d \in {1, SecsPerHour} :
          /\ (now + d) \div SecsPerHour <= MaxHours
          /\ (now + d) % SecsPerHour <= MaxSecs
          /\ now' = now + d
    /\ UNCHANGED <<invalidated, task_vars, parking_slot_state, tm_instance, tm_made, tickets, next_id,
                   system_vars, instance_lock, payment_strategy,
                   logger_vars, fee_vars, pc, op, arg, loc, res, ghost_vars>>

\* An assignment that leaves the attribute as it was.
assigned_strategy_kept(current, strategy) == current

\* set_payment, line 39: the value self.payment_strategy holds afterwards.
assigned_strategy(current, strategy) == strategy

\* ParkingSystem.set_payment(strategy), lines 38-39: one assignment, made by
\* whoever configures the system, at any time.
set_payment(strategy) ==
    /\ payment_strategy' = assigned_strategy(payment_strategy, strategy)
    /\ requested' = strategy
    /\ UNCHANGED <<invalidated, task_vars, parking_slot_state, tm_instance, tm_made, tickets, next_id,
                   system_vars, instance_lock, now, logger_vars, charged,
                   pc, op, arg, loc, res, ghost_vars>>

\* The Ticket objects a client prices directly.
ChargeTickets ==
    {Ticket(1, "AP27PEK9409", 1, ty, it) :
        ty \in SlotTypes \cup {OtherType}, it \in {0, SecsPerHour}}

\* A client calls calculate_charge(ticket) on a strategy object; the clock
\* reads arg.time as the call is made.
CallCharge(t) ==
    /\ pc[t] = "idle"
    /\ Cardinality(charged) < MaxCharges
    /\ \E strategy \in Strategies, ticket \in ChargeTickets :
          arg' = [arg EXCEPT ![t] = [NoArg EXCEPT !.ticket = ticket,
                                                  !.strategy = strategy,
                                                  !.time = now]]
    /\ op' = [op EXCEPT ![t] = "charge"]
    /\ pc' = [pc EXCEPT ![t] = "calculate"]
    /\ loc' = [loc EXCEPT ![t] = NoLoc]
    /\ res' = [res EXCEPT ![t] = NoRes]
    /\ UNCHANGED <<invalidated, task_vars, parking_slot_state, tm_instance, tm_made, tickets, next_id,
                   system_vars, instance_lock, payment_strategy, now,
                   logger_vars, fee_vars, ghost_vars>>

\* calculate_charge, FixedChargeStrategy.py lines 15-21 and
\* DynamicChargeStrategy.py lines 19-26: the clock is read and the cost
\* computed from it and the ticket.
calculate(t) ==
    /\ pc[t] = "calculate"
    /\ LET out == calculate_charge_outcome(arg[t].strategy, arg[t].ticket, now)
       IN  /\ res' = [res EXCEPT ![t] = [NoRes EXCEPT !.kind = out.kind,
                                                      !.fee = out.fee]]
           /\ charged' = charged \cup
                 {[ticket |-> arg[t].ticket, strategy |-> arg[t].strategy,
                   asked |-> arg[t].time, clock |-> now,
                   kind |-> out.kind, fee |-> out.fee]}
    /\ pc' = [pc EXCEPT ![t] = "ret"]
    /\ UNCHANGED <<invalidated, task_vars, parking_slot_state, tm_instance, tm_made, tickets, next_id,
                   system_vars, instance_lock, payment_strategy, now,
                   logger_vars, requested, op, arg, loc, ghost_vars>>

\* The thread that runs the scenario of Client.py.
MainThread == 1

\* One client parks and unparks while the clock runs and the strategy is
\* changed.
NextFee ==
    \/ CallPark(MainThread)
    \/ ParkStep(MainThread)
    \/ GetInstanceStep(MainThread)
    \/ CallUnpark(MainThread)
    \/ UnparkStep(MainThread)
    \/ Return(MainThread)
    \/ Tick
    \/ \E strategy \in Strategies : set_payment(strategy)

SpecFee == Init /\ [][NextFee]_vars

\* A client prices tickets on the strategy objects while the clock runs.
NextCharge ==
    \/ CallCharge(MainThread)
    \/ calculate(MainThread)
    \/ Return(MainThread)
    \/ Tick

SpecCharge == Init /\ [][NextCharge]_vars

\* ------------------------------------------- FixedChargeStrategy(rate)
\* The rates a client passes to the constructor of FixedChargeStrategy.
ConstructorRates == {RateSmall, RateMedium, RateLarge}

\* The parameter of __init__, line 10: the caller's rate, 20 when the call
\* gives none.
hourly_rate_parameter(given, rate) == IF given THEN rate ELSE FixedRate

\* A constructor that keeps the rate it is given.
FixedChargeStrategy_init_given(hourly_rate) == hourly_rate

\* FixedChargeStrategy.__init__, line 11: self.hourly_rate = 20, whatever
\* the parameter is.
FixedChargeStrategy_init(hourly_rate) == FixedRate

\* FixedChargeStrategy.calculate_charge, lines 15-21, on an object whose
\* attribute hourly_rate is self_hourly_rate.
FixedChargeStrategy_charge(self_hourly_rate, ticket, cur_time) ==
    Round2(diff_sec(ticket, cur_time) * self_hourly_rate, SecsPerHour)

\* FixedChargeStrategy(r) or FixedChargeStrategy(): a client constructs its
\* own strategy object to price a ticket with.
new_FixedChargeStrategy(t) ==
    /\ pc[t] = "idle"
    /\ \E given \in BOOLEAN, rate \in ConstructorRates, ticket \in ChargeTickets :
          /\ given \/ rate = FixedRate
          /\ arg' = [arg EXCEPT ![t] = [NoArg EXCEPT !.ticket = ticket,
                                                  !.given = given,
                                                  !.hourly_rate = rate,
                                                  !.time = now]]
          /\ loc' = [loc EXCEPT ![t] =
                       [NoLoc EXCEPT !.hourly_rate =
                           FixedChargeStrategy_init(
                               hourly_rate_parameter(given, rate))]]
    /\ op' = [op EXCEPT ![t] = "fixed_charge"]
    /\ pc' = [pc EXCEPT ![t] = "calculate_fixed"]
    /\ res' = [res EXCEPT ![t] = NoRes]
    /\ UNCHANGED <<invalidated, task_vars, parking_slot_state, tm_instance, tm_made, tickets, next_id,
                   system_vars, instance_lock, payment_strategy, now,
                   logger_vars, fee_vars, ghost_vars>>

\* calculate_charge on the object the client constructed.
calculate_fixed(t) ==
    /\ pc[t] = "calculate_fixed"
    /\ res' = [res EXCEPT ![t] =
                 [NoRes EXCEPT !.kind = "fee",
                               !.fee = FixedChargeStrategy_charge(
                                          loc[t].hourly_rate, arg[t].ticket, now)]]
    /\ pc' = [pc EXCEPT ![t] = "ret"]
    /\ UNCHANGED <<invalidated, task_vars, parking_slot_state, tm_instance, tm_made, tickets, next_id,
                   system_vars, instance_lock, payment_strategy, now,
                   logger_vars, fee_vars, op, arg, loc, ghost_vars>>

\* A client prices tickets on Fixed strategies it constructs with and
\* without a rate, while the clock runs.
NextRate ==
    \/ new_FixedChargeStrategy(MainThread)
    \/ calculate_fixed(MainThread)
    \/ Return(MainThread)
    \/ Tick

SpecRate == Init /\ [][NextRate]_vars

\* ------------------------------------------------------- Task (src/State)
\* done_task that closes a task from any state.
state_done_task_any(state) == ClosedState

\* done_task of the state classes: ProgressState.done_task assigns
\* ClosedState(); IdleState.done_task and ClosedState.done_task only print.
state_done_task(state) == IF state = ProgressState THEN ClosedState ELSE state

\* set_inprogress of the state classes: IdleState.set_inprogress assigns
\* ProgressState(); the other two only print.
state_set_inprogress(state) == IF state = IdleState THEN ProgressState ELSE state

\* reopen_task of the state classes: ClosedState.reopen_task assigns
\* IdleState(); the other two only print.
state_reopen_task(state) == IF state = ClosedState THEN IdleState ELSE state

\* What every Task method leaves alone.
parking_vars == <<parking_slot_state, tm_instance, tm_made, tickets, next_id,
                  system_vars, instance_lock, payment_strategy, now,
                  logger_vars, fee_vars, invalidated,
                  pc, op, arg, loc, res, ghost_vars>>

\* Task.set_inprogress, lines 11-12: self.state.set_inprogress(self)
Task_set_inprogress(k) ==
    /\ task_state' = [task_state EXCEPT ![k] = state_set_inprogress(@)]
    /\ task_call' = [task |-> k, method |-> "set_inprogress", state |-> ""]
    /\ UNCHANGED parking_vars

\* Task.reopen_task, lines 14-15: self.state.reopen_task(self)
Task_reopen_task(k) ==
    /\ task_state' = [task_state EXCEPT ![k] = state_reopen_task(@)]
    /\ task_call' = [task |-> k, method |-> "reopen_task", state |-> ""]
    /\ UNCHANGED parking_vars

\* Task.done_task, lines 17-18: self.state.done_task(self)
Task_done_task(k) ==
    /\ task_state' = [task_state EXCEPT ![k] = state_done_task(@)]
    /\ task_call' = [task |-> k, method |-> "done_task", state |-> ""]
    /\ UNCHANGED parking_vars

\* Task.set_state, lines 20-21: self.state = state
Task_set_state(k, state) ==
    /\ task_state' = [task_state EXCEPT ![k] = state]
    /\ task_call' = [task |-> k, method |-> "set_state", state |-> state]
    /\ UNCHANGED parking_vars

\* A client calls the methods of its tasks in any order.
NextTask ==
    \/ \E k \in Tasks : Task_set_inprogress(k)
    \/ \E k \in Tasks : Task_reopen_task(k)
    \/ \E k \in Tasks : Task_done_task(k)
    \/ \E k \in Tasks, state \in TaskStates : Task_set_state(k, state)

SpecTask == Init /\ [][NextTask]_vars

\* ------------------------------------------------------------ scheduling
\* The park_vehicle calls a run makes while the scheduling of its threads
\* is followed.
MaxLiveTickets == 1

\* park_vehicle on the instance get_instance returned.
LivePark(t) == ps_instance # 0 /\ next_id < MaxLiveTickets /\ CallPark(t)

\* unpark_vehicle, on the instance get_instance returned, of a ticket that is
\* registered when the call starts.
LiveUnpark(t) ==
    /\ ps_instance # 0
    /\ CallUnpark(t)
    /\ arg'[t].ticket \in Registry

\* A step a thread takes inside a call it has started.
ThreadStep(t) ==
    \/ PSStep(t) \/ LoggerStep(t)
    \/ ParkStep(t) \/ GetInstanceStep(t) \/ UnparkStep(t)

\* The threads of a fresh process obtain the system and the logger through
\* get_instance and park and unpark on the system.
NextLive ==
    \/ \E t \in Workers : CallGetInstance(t)
    \/ \E t \in Workers : CallLogger(t)
    \/ \E t \in Workers : LivePark(t)
    \/ \E t \in Workers : LiveUnpark(t)
    \/ \E t \in Workers : ThreadStep(t)
    \/ \E t \in Workers : Return(t)

\* The scheduler runs every thread that can take a step: weak fairness of
\* each thread. threading.Lock hands a released lock to any waiter or
\* newcomer, so no more than that is assumed of an acquire.
SpecLive ==
    /\ InitPS
    /\ [][NextLive]_vars
    /\ \A t \in Workers : WF_vars(ThreadStep(t))

\* =================================================================
\* Properties
\* =================================================================
TicketIds(dict) == {k.ticket_id : k \in dict}

\* The slots of a type, all of them EMPTY when the lot is set up.
SlotsOfType(ty) == {s \in SlotIds : parking_slot_type(s) = ty}

\* The slot id was added to none of the floors.
OnNoFloor(slot_id) == slot_id \notin SlotIds

\* ---- C1
ParkCalls(ty) == {t \in Threads : op[t] = "park" /\ arg[t].vehicle_type = ty}
ParkTickets(ty) == {t \in ParkCalls(ty) : res[t].kind = "ticket"}
ParkNones(ty) == {t \in ParkCalls(ty) : res[t].kind = "None"}
AllParked == \A t \in Threads : op[t] = "park" /\ pc[t] = "ret"

\* C1: when N concurrent park_vehicle calls for a type whose K slots are all
\* EMPTY have returned and nothing was unparked, min(N, K) of them returned a
\* ticket (K when K < N) and the others None, and at no time do two returned
\* tickets name the same slot.
C1_ConcurrentParks ==
    /\ \A t1, t2 \in Threads :
          (t1 # t2 /\ res[t1].kind = "ticket" /\ res[t2].kind = "ticket")
             => res[t1].ticket.parking_slot_id # res[t2].ticket.parking_slot_id
    /\ AllParked =>
          \A ty \in SlotTypes :
             /\ Cardinality(ParkTickets(ty)) =
                   Min(Cardinality(ParkCalls(ty)), Cardinality(SlotsOfType(ty)))
             /\ Cardinality(ParkNones(ty)) =
                   Cardinality(ParkCalls(ty)) - Cardinality(ParkTickets(ty))

\* Three calls for SMALL have returned against the two SMALL slots.
C1_Witness ==
    /\ AllParked
    /\ Cardinality(ParkCalls("SMALL")) > Cardinality(SlotsOfType("SMALL"))
    /\ Cardinality(ParkTickets("SMALL")) >= 2
    /\ Cardinality(ParkNones("SMALL")) >= 1

\* ---- C2
\* No call is in progress: the state a sequence of calls has led to.
Quiescent == \A t \in Threads : pc[t] \in {"idle", "ret"}

\* C2: in the state any sequence or interleaving of park_vehicle and
\* unpark_vehicle calls leads to, no two tickets present in the ticket
\* registry name the same slot.
C2_NoDoubleBooking ==
    Quiescent =>
       \A k1, k2 \in Registry :
          k1.parking_slot_id = k2.parking_slot_id => k1 = k2

\* ---- C3
UnparkReturned(t) ==
    /\ pc[t] = "ret" /\ op[t] = "unpark" /\ arg[t].ticket \in issued
    /\ \A u \in Threads \ {t} : pc[u] \in {"idle", "ret"}

\* C3: an unpark_vehicle call with a ticket of park_vehicle returns a fee when
\* the ticket was in the registry as the call began and no concurrent call
\* took it, and returns the InvalidTicket result (None), with no exception,
\* when the ticket had already been unparked.
C3_SecondUnparkInvalid ==
    \A t \in Threads :
       UnparkReturned(t) =>
          /\ (~ loc[t].stale /\ ~ loc[t].raced) => res[t].kind = "fee"
          /\ loc[t].stale => res[t].kind = "None"

\* ---- C4
\* A step of thread t.
Stepped(t) == <<pc[t], loc[t], res[t]>> # <<pc'[t], loc'[t], res'[t]>>

\* C4: no step of an unpark_vehicle call whose ticket was absent from the
\* registry when it was presented changes the state of a slot or the
\* registry, and the call returns no fee.
C4_StaleTicketRejected ==
    [][\A t \in Threads :
          (op[t] = "unpark" /\ loc[t].stale /\ Stepped(t)) =>
             /\ parking_slot_state' = parking_slot_state
             /\ Registry' = Registry
             /\ res'[t].kind # "fee"]_vars
\* ---- C5
\* The park_vehicle call of thread t has returned a ticket, no other call has
\* written to the slots or the registry since it took the lock, and its
\* ticket has not been presented yet.
ParkedClean(t) ==
    /\ pc[t] = "ret" /\ op[t] = "park" /\ res[t].kind = "ticket"
    /\ snap.owner = t /\ snap.tid = res[t].ticket.ticket_id /\ ~ snap.undone

\* C5: after a successful park_vehicle, one slot that was EMPTY and of the
\* requested type is FILLED and every other slot is as it was; the registry
\* holds one ticket more, the returned one, which carries the given vehicle
\* id, that slot's id, the requested type and the given time, under an id no
\* earlier ticket has.
C5_ParkEffect ==
    \A t \in Threads :
       ParkedClean(t) =>
          LET k == res[t].ticket
              s == k.parking_slot_id
          IN  /\ s \in SlotIds
              /\ snap.slots[s] = "EMPTY"
              /\ parking_slot_type(s) = arg[t].vehicle_type
              /\ parking_slot_state = [snap.slots EXCEPT ![s] = "FILLED"]
              /\ k.ticket_id \notin TicketIds(snap.tickets)
              /\ Registry = snap.tickets \cup {k}
              /\ k.vehicle_number = arg[t].vehicle_id
              /\ k.parking_slot_type = arg[t].vehicle_type
              /\ k.issued_time = arg[t].time

\* A MEDIUM vehicle was parked on the second floor while a ticket was active.
C5_Witness ==
    \E t \in Threads :
       /\ ParkedClean(t)
       /\ arg[t].vehicle_type = "MEDIUM"
       /\ snap.tickets # {}

\* ---- C6
\* The park_vehicle call of thread t has returned and no other call has
\* written to the slots or the registry since it took the lock.
ParkReturnedClean(t) ==
    /\ pc[t] = "ret" /\ op[t] = "park" /\ snap.owner = t
    /\ snap.tid = res[t].ticket.ticket_id

EmptyOfType(slots, ty) ==
    {s \in SlotIds : parking_slot_type(s) = ty /\ slots[s] = "EMPTY"}

\* C6: park_vehicle returns a ticket or None and raises nothing; it returns
\* None exactly when no floor had an EMPTY slot of the requested type, and
\* then the slots and the registry are as they were.
C6_NoneIffFull ==
    \A t \in Threads :
       (pc[t] = "ret" /\ op[t] = "park") =>
          /\ res[t].kind \in {"ticket", "None"}
          /\ ParkReturnedClean(t) =>
                /\ res[t].kind = "None"
                      <=> EmptyOfType(snap.slots, arg[t].vehicle_type) = {}
                /\ res[t].kind = "None" =>
                      /\ parking_slot_state = snap.slots
                      /\ Registry = snap.tickets

\* A SMALL vehicle was turned away with every SMALL slot FILLED.
C6_Witness ==
    \E t \in Threads :
       /\ ParkReturnedClean(t)
       /\ res[t].kind = "None"
       /\ arg[t].vehicle_type = "SMALL"
       /\ \A s \in SlotsOfType("SMALL") : parking_slot_state[s] = "FILLED"

\* ---- C7
\* The unpark_vehicle call of thread t has returned the fee for the ticket of
\* the last park_vehicle, and no other call has written in between.
RoundTrip(t) ==
    /\ pc[t] = "ret" /\ op[t] = "unpark" /\ res[t].kind = "fee"
    /\ snap.tid # 0 /\ arg[t].ticket.ticket_id = snap.tid

\* C7: park_vehicle followed by unpark_vehicle of the returned ticket leaves
\* the booked slot EMPTY and every slot and the registry as they were before
\* the park.
C7_RoundTrip ==
    \A t \in Threads :
       RoundTrip(t) =>
          /\ snap.slots[arg[t].ticket.parking_slot_id] = "EMPTY"
          /\ parking_slot_state = snap.slots
          /\ Registry = snap.tickets

\* A round trip made while another vehicle stays parked.
C7_Witness ==
    \E t \in Threads :
       /\ RoundTrip(t)
       /\ snap.tickets # {}
       /\ \E s \in SlotIds : parking_slot_state[s] = "FILLED"

\* ---- C8
\* C8: an unpark_vehicle call whose ticket names a slot of no floor changes
\* no slot and no registry at any step, constructs nothing, and ends by
\* returning the InvalidTicket result (None): no fee and no exception.
C8_UnknownSlot ==
    [][\A t \in Threads :
          (op[t] = "unpark" /\ OnNoFloor(arg[t].ticket.parking_slot_id)
             /\ Stepped(t)) =>
             /\ parking_slot_state' = parking_slot_state
             /\ tickets' = tickets
             /\ tm_instance' = tm_instance
             /\ pc'[t] \in {"release_scan", "ret", "idle"}
             /\ pc'[t] = "ret" => res'[t].kind = "None"]_vars

\* Such a call has returned while a vehicle is parked.
C8_Witness ==
    \E t \in Threads :
       /\ pc[t] = "ret" /\ op[t] = "unpark"
       /\ OnNoFloor(arg[t].ticket.parking_slot_id)
       /\ res[t].kind = "None"
       /\ Registry # {}

\* ---- C9
GotInstance(t) == pc[t] = "ret" /\ op[t] = "ps"

\* C9: however the get_instance calls of the threads interleave, at most one
\* ParkingSystem is constructed, and every call returns that one object.
C9_OneParkingSystem ==
    /\ Cardinality(ps_made) <= 1
    /\ \A t \in Threads :
          GotInstance(t) =>
             /\ res[t].kind = "instance"
             /\ ps_made = {res[t].inst}

\* Every thread has its instance, one of them an object another thread made.
C9_Witness ==
    /\ \A t \in Threads : GotInstance(t)
    /\ \E t \in Threads : res[t].inst \in Threads \ {t}

\* ---- C10
\* C10: at most one TicketManager is ever constructed, and every ticket
\* stored through get_instance() is in the registry get_instance() gives.
C10_OneTicketManager ==
    /\ Cardinality(tm_made) <= 1
    /\ \A k \in issued : k \in Registry

\* ---- C11
\* Thread t evaluates the class named by o itself, in one step.
Constructs(t, o) == pc[t] = "idle" /\ pc'[t] = "ret" /\ op'[t] = o

\* C11: for ParkingSystem, TicketManager and ConsoleLogger, calling the class
\* while its instance is set raises, leaves the instance as it is and brings
\* no further object of the class into existence.
C11_DuplicateConstructionFatal ==
    [][\A t \in Threads :
          /\ (Constructs(t, "new_ps") /\ ps_instance # 0) =>
                /\ res'[t].kind = "Exception"
                /\ ps_instance' = ps_instance /\ ps_made' = ps_made
          /\ (Constructs(t, "new_cl") /\ cl_instance # 0) =>
                /\ res'[t].kind = "Exception"
                /\ cl_instance' = cl_instance /\ cl_made' = cl_made
          /\ (Constructs(t, "new_tm") /\ tm_instance # 0) =>
                /\ res'[t].kind = "Exception"
                /\ tm_instance' = tm_instance /\ tm_made' = tm_made]_vars

\* The same for the two classes whose __init__ looks at the instance.
C11_GuardedClassesFatal ==
    [][\A t \in Threads :
          /\ (Constructs(t, "new_ps") /\ ps_instance # 0) =>
                /\ res'[t].kind = "Exception"
                /\ ps_instance' = ps_instance /\ ps_made' = ps_made
          /\ (Constructs(t, "new_cl") /\ cl_instance # 0) =>
                /\ res'[t].kind = "Exception"
                /\ cl_instance' = cl_instance /\ cl_made' = cl_made]_vars

\* ---- C12
Abs(x) == IF x < 0 THEN 0 - x ELSE x

\* cost, in hundredths, is the amount rate * secs / 3600 rounded to two
\* decimals: no hundredth is nearer to it.
IsRounded(cost, rate, secs) == 2 * Abs(cost * 3600 - 100 * rate * secs) <= 3600

\* The step of unpark_vehicle that returns what calculate_charge gave.
Charges(t) == pc[t] = "charge" /\ pc'[t] = "ret"

Elapsed(t) == now - arg[t].ticket.issued_time

\* C12: while the strategy is the Fixed one, unpark_vehicle returns the fee
\* 20 per hour elapsed from the ticket's issue time to the time of the
\* unpark, rounded to two decimals, whatever the slot type; two hours give
\* 40.00; the slot is EMPTY afterwards.
C12_FixedFee ==
    [][\A t \in Threads :
          (Charges(t) /\ payment_strategy = "Fixed") =>
             /\ res'[t].kind = "fee"
             /\ IsRounded(res'[t].fee, 20, Elapsed(t))
             /\ Elapsed(t) = 2 * 3600 => res'[t].fee = 4000
             /\ parking_slot_state'[arg[t].ticket.parking_slot_id] = "EMPTY"]_vars

\* A MEDIUM ticket was unparked two hours after its issue for 40.00.
C12_Witness ==
    \E t \in Threads :
       /\ pc[t] = "ret" /\ op[t] = "unpark" /\ res[t].kind = "fee"
       /\ payment_strategy = "Fixed" /\ requested = "none"
       /\ arg[t].ticket.parking_slot_type = "MEDIUM"
       /\ Elapsed(t) = 7200
       /\ res[t].fee = 4000
       /\ parking_slot_state[arg[t].ticket.parking_slot_id] = "EMPTY"

\* ---- C16
\* The hourly rate of the strategy last passed to set_payment, the Fixed one
\* when there was no such call.
RequestedRate(ty) ==
    IF requested \in {"none", "Fixed"} THEN 20
    ELSE CASE ty = "SMALL" -> 20 [] ty = "MEDIUM" -> 30 [] ty = "LARGE" -> 40

\* C16: every successful unpark_vehicle computes its fee with the strategy
\* last passed to set_payment, whenever the ticket was issued, and with the
\* Fixed one while there was no set_payment call; a set_payment call changes
\* no result already returned.
C16_StrategySwitch ==
    [][/\ \A t \in Threads :
             Charges(t) =>
                /\ res'[t].kind = "fee"
                /\ IsRounded(res'[t].fee,
                             RequestedRate(arg[t].ticket.parking_slot_type),
                             Elapsed(t))
       /\ requested' # requested => res' = res]_vars

\* A MEDIUM ticket was charged at the Dynamic rate set after the Fixed one,
\* to an amount the Fixed strategy does not give.
C16_Witness ==
    \E t \in Threads :
       /\ pc[t] = "ret" /\ op[t] = "unpark" /\ res[t].kind = "fee"
       /\ requested = "Dynamic"
       /\ arg[t].ticket.parking_slot_type = "MEDIUM"
       /\ Elapsed(t) = 3600
       /\ res[t].fee = 3000

\* ---- C13
\* The rate table of the reference policy.
TableRate(ty) == CASE ty = "SMALL" -> 20 [] ty = "MEDIUM" -> 30 [] ty = "LARGE" -> 40

TableTypes == {"SMALL", "MEDIUM", "LARGE"}

\* The calculate_charge calls on the Dynamic strategy that returned a cost.
DynamicCosts ==
    {q \in charged : q.strategy = "Dynamic" /\ q.kind = "fee"
                     /\ q.ticket.parking_slot_type \in TableTypes}

SecsOf(q) == q.clock - q.ticket.issued_time

\* Every Dynamic cost is the table rate of the ticket's type times the hours
\* elapsed, rounded to two decimals after the multiplication.
DynamicCostsRounded ==
    \A q \in DynamicCosts :
       IsRounded(q.fee, TableRate(q.ticket.parking_slot_type), SecsOf(q))

\* C13 as stated: the Dynamic fee is the table rate of the ticket's type times
\* the elapsed hours, rounded to two decimals after the multiplication, and
\* the fees of two tickets with equal elapsed time are in the ratio of their
\* rates, 20:30:40.
C13_DynamicRatio ==
    /\ DynamicCostsRounded
    /\ \A q1, q2 \in DynamicCosts :
          SecsOf(q1) = SecsOf(q2) =>
             q1.fee * TableRate(q2.ticket.parking_slot_type)
                = q2.fee * TableRate(q1.ticket.parking_slot_type)

\* No hundredth is lost to rounding in a cost of this elapsed time.
WholeHundredths(secs) == \A ty \in TableTypes : (100 * TableRate(ty) * secs) % 3600 = 0

\* C13 amended: the Dynamic fee is the table rate of the ticket's type times
\* the elapsed hours, rounded to two decimals after the multiplication; the
\* fees of two tickets with equal elapsed time are in the ratio of their
\* rates when the products need no rounding, and otherwise differ from that
\* ratio by no more than the rounding of each fee to the hundredth.
C13_DynamicRatioRounded ==
    /\ DynamicCostsRounded
    /\ \A q1, q2 \in DynamicCosts :
          SecsOf(q1) = SecsOf(q2) =>
             LET r1 == TableRate(q1.ticket.parking_slot_type)
                 r2 == TableRate(q2.ticket.parking_slot_type)
             IN  /\ 2 * Abs(q1.fee * r2 - q2.fee * r1) <= r1 + r2
                 /\ WholeHundredths(SecsOf(q1)) => q1.fee * r2 = q2.fee * r1

\* A MEDIUM and a LARGE ticket were priced after one hour each, at 30.00 and
\* 40.00.
C13_Witness ==
    \E q1, q2 \in DynamicCosts :
       /\ q1.ticket.parking_slot_type = "MEDIUM"
       /\ q2.ticket.parking_slot_type = "LARGE"
       /\ SecsOf(q1) = 3600 /\ SecsOf(q2) = 3600
       /\ q1.fee = 3000 /\ q2.fee = 4000

\* ---- C14
\* C14: of two costs computed by one strategy for one ticket, the one
\* computed later is not the smaller, provided the earlier was computed at or
\* after the ticket's issue time.
C14_FeeMonotone ==
    \A q1, q2 \in charged :
       (/\ q1.ticket = q2.ticket /\ q1.strategy = q2.strategy
        /\ q1.kind = "fee" /\ q2.kind = "fee"
        /\ q1.ticket.issued_time <= q1.clock /\ q1.clock < q2.clock)
          => q1.fee <= q2.fee

\* One ticket was priced twice by one strategy, the later cost the greater.
C14_Witness ==
    \E q1, q2 \in charged :
       /\ q1.ticket = q2.ticket /\ q1.strategy = q2.strategy
       /\ q1.kind = "fee" /\ q2.kind = "fee"
       /\ q1.ticket.issued_time <= q1.clock /\ q1.clock < q2.clock
       /\ 0 < q1.fee /\ q1.fee < q2.fee

\* ---- C15
\* C15: two calculate_charge calls for the same ticket on the same strategy,
\* made for the same time by the caller, return the same amount whatever the
\* clock reads when they run.
C15_ChargeOfCallerTime ==
    \A q1, q2 \in charged :
       (q1.ticket = q2.ticket /\ q1.strategy = q2.strategy
          /\ q1.asked = q2.asked)
          => (q1.kind = q2.kind /\ q1.fee = q2.fee)

\* ---- C19
\* C19: a calculate_charge call on the Dynamic strategy for a ticket whose
\* slot type is not in the rate table ends in an error and returns no amount.
C19_UnmappedTypeFatal ==
    /\ \A q \in charged :
          (q.strategy = "Dynamic" /\ q.ticket.parking_slot_type \notin TableTypes)
             => (q.kind = "KeyError" /\ q.fee = 0)
    /\ \A t \in Threads :
          (pc[t] = "ret" /\ op[t] \in {"charge", "unpark"}
             /\ arg[t].ticket.parking_slot_type \notin TableTypes
             /\ (IF op[t] = "charge" THEN arg[t].strategy
                 ELSE payment_strategy) = "Dynamic")
             => res[t].kind # "fee"

\* Such a call has ended in the KeyError of the lookup, after the Fixed
\* strategy priced the same ticket.
C19_Witness ==
    \E q1, q2 \in charged :
       /\ q1.ticket.parking_slot_type \notin TableTypes
       /\ q1.strategy = "Dynamic" /\ q1.kind = "KeyError"
       /\ q2.ticket = q1.ticket /\ q2.strategy = "Fixed" /\ q2.kind = "fee"

\* ---- C17
\* The ids of every ticket handed out or stored so far.
KnownIds ==
    TicketIds(issued) \cup UNION {TicketIds(tickets[m]) : m \in Threads}

\* The tickets handed out earlier that are no longer in the registry.
Unparked == {k \in issued : k \notin Registry}

\* C17: every create_ticket call gives its ticket an id that no ticket made
\* before has, in or out of the registry; a park_vehicle for a type of which a
\* slot was parked and unparked succeeds on an EMPTY slot, on that slot when
\* no other of the type is EMPTY, and its ticket's id differs from the
\* earlier ticket's.
C17_FreshIds ==
    /\ [][\A t \in Threads :
             (pc[t] = "create_ticket" /\ pc'[t] # "create_ticket") =>
                res'[t].ticket.ticket_id \notin KnownIds]_vars
    /\ [](\A t \in Threads : \A k \in Unparked :
             (/\ ParkReturnedClean(t)
              /\ k # res[t].ticket
              /\ k.parking_slot_type = arg[t].vehicle_type
              /\ snap.slots[k.parking_slot_id] = "EMPTY") =>
                /\ res[t].kind = "ticket"
                /\ res[t].ticket.ticket_id # k.ticket_id
                /\ snap.slots[res[t].ticket.parking_slot_id] = "EMPTY"
                /\ EmptyOfType(snap.slots, arg[t].vehicle_type)
                      = {k.parking_slot_id}
                   => res[t].ticket.parking_slot_id = k.parking_slot_id)

\* A park has been given the slot of a ticket unparked before it, the only
\* EMPTY slot of the type, under a new id.
C17_Witness ==
    \E t \in Threads : \E k \in Unparked :
       /\ ParkedClean(t)
       /\ k.ticket_id # res[t].ticket.ticket_id
       /\ k.parking_slot_id = res[t].ticket.parking_slot_id
       /\ EmptyOfType(snap.slots, arg[t].vehicle_type) = {k.parking_slot_id}

\* ---- C18
\* Slot s1 is met before slot s2 by a scan of the floors in the order of
\* add_floor and of each floor's slots in the order of add_slot.
ScannedBefore(s1, s2) ==
    \/ FloorOf(s1) < FloorOf(s2)
    \/ FloorOf(s1) = FloorOf(s2) /\ s1 < s2

BothUnparked(t1, t2) ==
    /\ t1 # t2
    /\ pc[t1] = "ret" /\ op[t1] = "unpark" /\ ~ loc[t1].stale
    /\ pc[t2] = "ret" /\ op[t2] = "unpark" /\ ~ loc[t2].stale
    /\ arg[t1].ticket \in issued /\ arg[t2].ticket = arg[t1].ticket

\* C20: of two concurrent unpark_vehicle calls with the same valid ticket, one
\* returns the fee and the other the InvalidTicket result (None), neither
\* raises, and the ticket is gone from the registry.
C20_ConcurrentUnpark ==
    \A t1, t2 \in Threads :
       BothUnparked(t1, t2) =>
          /\ {res[t1].kind, res[t2].kind} = {"fee", "None"}
          /\ arg[t1].ticket \notin Registry

\* Exactly one of the two calls returns the fee, whatever the other ends in.
C20_OneFee ==
    \A t1, t2 \in Threads :
       BothUnparked(t1, t2) =>
          /\ Cardinality({t \in {t1, t2} : res[t].kind = "fee"}) = 1
          /\ arg[t1].ticket \notin Registry

\* ---- C21
\* Thread t takes the step of invalidate_ticket.
Invalidates(t) == pc[t] = "invalidate_ticket" /\ pc'[t] # "invalidate_ticket"

\* C21: invalidate_ticket removes the ticket from the registry and returns
\* (True) when its id is present; when the id is absent it ends in an error
\* (KeyError), not in a return as if it had removed something, and leaves the
\* registry as it was.
C21_InvalidateTicket ==
    [][\A t \in Threads :
          Invalidates(t) =>
             LET dict == tickets[loc[t].tm]
                 id == arg[t].ticket.ticket_id
             IN  IF id \in TicketIds(dict)
                 THEN /\ TicketIds(tickets'[loc[t].tm]) = TicketIds(dict) \ {id}
                      /\ \A k \in dict : k.ticket_id # id => k \in tickets'[loc[t].tm]
                      /\ pc'[t] = "charge"
                 ELSE /\ tickets' = tickets
                      /\ pc'[t] = "ret"
                      /\ res'[t].kind = "KeyError"]_vars

\* A second unpark of a ticket has ended in the error while another ticket
\* stays registered, after a first one removed it.
C21_Witness ==
    \E t \in Threads :
       /\ pc[t] = "ret" /\ op[t] = "unpark" /\ loc[t].stale
       /\ res[t].kind = "KeyError"
       /\ arg[t].ticket \in invalidated
       /\ Registry # {}

\* ---- C22
\* Thread t is between the start of the floor scan of park_vehicle and the
\* end of its with block.
InPark(t) ==
    /\ op[t] = "park"
    /\ pc[t] \in {"book_scan", "book_fill", "tm_check", "tm_new", "tm_ret",
                  "create_ticket", "park_unlock"}

\* C22: a thread scanning the floors, filling a slot or creating the ticket
\* in park_vehicle holds the system lock, so no two threads are there at once;
\* the lock is free again when the call has returned, with a ticket or with
\* None.
C22_ParkHoldsLock ==
    /\ \A t \in Threads : InPark(t) => instance_lock = t
    /\ \A t1, t2 \in Threads : (InPark(t1) /\ InPark(t2)) => t1 = t2
    /\ \A t \in Threads :
          (op[t] = "park" /\ pc[t] = "ret") =>
             /\ res[t].kind \in {"ticket", "None"}
             /\ instance_lock # t
    /\ (\A t \in Threads : ~ InPark(t)) => instance_lock = 0

\* One thread is creating its ticket under the lock while another waits for
\* the lock, which an earlier park took and released.
C22_Witness ==
    \E t, u \in Threads :
       /\ InPark(t) /\ pc[t] = "create_ticket"
       /\ pc[u] = "park_lock"
       /\ next_id > 0

\* ---- C23
\* C23: no update of the ticket registry is lost under any interleaving of
\* park_vehicle and unpark_vehicle calls: a create_ticket step adds its ticket
\* and keeps every other, an invalidate_ticket step that finds the ticket
\* removes it and keeps every other, and when all calls have completed the
\* registry holds exactly the tickets created and not invalidated.
C23_NoLostUpdate ==
    /\ [][\A t \in Threads :
             /\ (pc[t] = "create_ticket" /\ pc'[t] # "create_ticket") =>
                   /\ Registry' = Registry \cup {res'[t].ticket}
                   /\ res'[t].ticket \notin Registry
             /\ (Invalidates(t) /\ pc'[t] = "charge") =>
                   /\ Registry' = Registry \ {arg[t].ticket}
                   /\ arg[t].ticket \in Registry]_vars
    /\ [](Quiescent => Registry = issued \ invalidated)

\* Two calls have completed side by side, a park with its ticket and an
\* unpark with its fee, and both a created and an invalidated ticket exist.
C23_Witness ==
    /\ Quiescent
    /\ \E t, u \in Threads :
          /\ pc[t] = "ret" /\ op[t] = "park" /\ res[t].kind = "ticket"
          /\ pc[u] = "ret" /\ op[u] = "unpark" /\ res[u].kind = "fee"
    /\ Registry # {}
    /\ invalidated # {}
    /\ Cardinality(issued) >= 3

\* ---- C25
\* The registered tickets that name slot s.
TicketsOn(s) == {k \in Registry : k.parking_slot_id = s}

\* C25: in every state that park_vehicle and unpark_vehicle calls have led to
\* with none of them in progress, a slot is FILLED exactly when one ticket of
\* the registry names it and EMPTY exactly when none does.
C25_SlotsMatchRegistry ==
    Quiescent =>
       \A s \in SlotIds :
          /\ parking_slot_state[s] = "FILLED" <=> Cardinality(TicketsOn(s)) = 1
          /\ parking_slot_state[s] = "EMPTY" <=> TicketsOn(s) = {}

\* ---- C26
\* The rate a client's FixedChargeStrategy is to charge: the rate passed to
\* the constructor, 20 when none was passed.
ConstructedRate(t) == IF arg[t].given THEN arg[t].hourly_rate ELSE 20

\* The step in which calculate_charge of a constructed strategy returns.
ChargesFixed(t) == pc[t] = "calculate_fixed" /\ pc'[t] = "ret"

\* C26: FixedChargeStrategy(r).calculate_charge returns the elapsed hours
\* times r, rounded to two decimals, for every rate r passed to the
\* constructor, and elapsed hours times 20 only when no rate was passed.
C26_ChargesConstructedRate ==
    [][\A t \in Threads :
          ChargesFixed(t) =>
             /\ res'[t].kind = "fee"
             /\ IsRounded(res'[t].fee, ConstructedRate(t), Elapsed(t))]_vars

\* With no rate passed the charge is that of 20 per hour.
C26_DefaultRate ==
    [][\A t \in Threads :
          (ChargesFixed(t) /\ ~arg[t].given) =>
             IsRounded(res'[t].fee, 20, Elapsed(t))]_vars

\* ---- C27
\* The transitions Idle -> Progress -> Closed -> Idle with the method that
\* makes each.
TaskCycle ==
    {<<"Idle", "set_inprogress", "Progress">>,
     <<"Progress", "done_task", "Closed">>,
     <<"Closed", "reopen_task", "Idle">>}

\* A step in which a method of task k is called.
TaskCalled(k) == task_vars' # task_vars /\ task_call'.task = k

\* C27: a Task starts Idle and its state changes only along
\* Idle --set_inprogress--> Progress --done_task--> Closed --reopen_task-->
\* Idle, every other operation/state pair leaving it unchanged, so Closed is
\* never reached from Idle without passing through Progress.
C27_TaskStateMachine ==
    /\ \A k \in Tasks : task_state[k] = "Idle"
    /\ [][\A k \in Tasks :
             /\ task_state'[k] # task_state[k] =>
                   <<task_state[k], task_call'.method, task_state'[k]>> \in TaskCycle
             /\ ~(task_state[k] = "Idle" /\ task_state'[k] = "Closed")]_vars

\* C27 as the code has it: a Task starts Idle; set_inprogress, done_task and
\* reopen_task change the state exactly along Idle -> Progress -> Closed ->
\* Idle and leave it unchanged on the six other operation/state pairs;
\* set_state(s) puts the task in s from any state, and is the only way from
\* Idle to Closed in one step; no call changes another task.
C27_TaskOperations ==
    /\ \A k \in Tasks : task_state[k] = "Idle"
    /\ [][\A k \in Tasks :
             /\ (TaskCalled(k) /\ task_call'.method # "set_state") =>
                   IF <<task_state[k], task_call'.method>> \in
                         {<<c[1], c[2]>> : c \in TaskCycle}
                   THEN <<task_state[k], task_call'.method, task_state'[k]>>
                           \in TaskCycle
                   ELSE task_state'[k] = task_state[k]
             /\ (TaskCalled(k) /\ task_call'.method = "set_state") =>
                   task_state'[k] = task_call'.state
             /\ (task_state[k] = "Idle" /\ task_state'[k] = "Closed") =>
                   (task_call'.method = "set_state" /\ task_call'.task = k)
             /\ task_state'[k] # task_state[k] => task_call'.task = k]_vars

\* One task was just closed by done_task while another is in progress and a
\* third is idle.
C27_Witness ==
    /\ task_call.method = "done_task"
    /\ task_call.task \in Tasks
    /\ task_state[task_call.task] = "Closed"
    /\ \E k \in Tasks : task_state[k] = "Progress"
    /\ \E k \in Tasks : task_state[k] = "Idle"

\* ---- C24
\* Thread t is inside a call it has started.
InCall(t) == pc[t] \notin {"idle", "ret"}

\* The call of thread t has returned or raised.
Completed(t) == pc[t] = "ret"

\* A thread that holds a lock can take its next step.
NoLockDeadlock ==
    /\ instance_lock # 0 => ENABLED ThreadStep(instance_lock)
    /\ ps_lock # 0 => ENABLED ThreadStep(ps_lock)
    /\ cl_lock # 0 => ENABLED ThreadStep(cl_lock)

AwaitsSystemLock(t) == pc[t] = "park_lock"

====
